---- MODULE Spec2Model ----
(***************************************************************************)
(* Model of mrec.item_similarity.recommender.ItemSimilarityRecommender.     *)
(*                                                                          *)
(* Matrices are dense functions over 0..n-1 (a sparse matrix is the dense   *)
(* one whose stored entries are the non-zero ones); scores are integers     *)
(* (a fixed-point scaling of the floats the program uses).                  *)
(***************************************************************************)
EXTENDS Integers, Sequences, FiniteSets, TLC

\* ---------------------------------------------------------------- bounds
NumUsers == 2      \* rows of the interaction matrix
NumItems == 3      \* columns of the interaction matrix
MaxWeight == 1     \* largest interaction count
MaxSim == 2        \* largest similarity value (the smallest is -1)
MaxEntries == 2    \* non-zero entries of a similarity table / interaction matrix
MaxCount == 2      \* largest max_items / max_similar_items passed to a call

VARIABLES
    dataset,            \* the caller's user-item matrix (never mutated)
    strategy,           \* what compute_similarities(dataset, j) returns, per j
    max_items,          \* the count the caller passes (max_items, max_similar_items)
    return_scores,      \* the return_scores the caller passes to them
    similarity_matrix,  \* self.similarity_matrix, or the absent attribute
    completed,          \* history: a fit or a load_similarity_matrix has returned
    last                \* the last call: its name, other arguments and outcome

vars == <<dataset, strategy, max_items, return_scores, similarity_matrix, completed, last>>

caller == <<dataset, strategy, max_items, return_scores>>

\* ------------------------------------------------------- matrices, shapes
Range0(n) == 0 .. (n - 1)

num_users_of(ds) == Cardinality(DOMAIN ds)

num_items_of(ds) == Cardinality(DOMAIN ds[0])

ZeroMatrix(rows, cols) == [r \in Range0(rows) |-> [c \in Range0(cols) |-> 0]]

\* dataset[u].indices: the columns stored in row u
RowIndices(row) == {i \in DOMAIN row : row[i] # 0}

\* the attribute self.similarity_matrix before any assignment to it
NoMatrix == [present |-> FALSE, n |-> 0, m |-> ZeroMatrix(0, 0)]

\* ---------------------------------------------------------- exceptions
NoError == "none"

NotFitted == "AttributeError: you must call fit() before trying to recommend items"

StrategyFailure == "compute_similarities raised"

IndexErr == "IndexError"

ValueErr == "ValueError"

\* ------------------------------------------------- csr_matrix((data,idx),shape)
RECURSIVE SumAt(_, _, _)
SumAt(trips, r, c) ==
    IF trips = <<>> THEN 0
    ELSE LET t == Head(trips) IN
         (IF t[1] = r /\ t[2] = c THEN t[3] ELSE 0) + SumAt(Tail(trips), r, c)

\* scipy rejects a row or column index outside the shape
TripletsInShape(trips, n) ==
    \A x \in DOMAIN trips :
        /\ trips[x][1] >= 0 /\ trips[x][1] < n
        /\ trips[x][2] >= 0 /\ trips[x][2] < n

\* the matrix of the given shape holding the triplets (duplicates are summed)
CsrMatrix(trips, n) ==
    [present |-> TRUE, n |-> n,
     m |-> [r \in Range0(n) |-> [c \in Range0(n) |-> SumAt(trips, r, c)]]]

\* ------------------------------------------------------------------ fit
\* for k,v in enumerate(w): if v != 0: data.append(v); row.append(j); col.append(k)
RECURSIVE RowTriplets(_, _, _)
RowTriplets(w, j, k) ==
    IF k \notin DOMAIN w THEN <<>>
    ELSE (IF w[k] # 0 THEN <<(<<j, k, w[k]>>)>> ELSE <<>>) \o RowTriplets(w, j, k + 1)

\* the loop over the items; compute_similarities raises at item fail_at (if any)
RECURSIVE FitLoop(_, _, _, _, _)
FitLoop(w_of, fail_at, num_items, j, trips) ==
    IF j >= num_items THEN [raised |-> NoError, trips |-> trips]
    ELSE IF j = fail_at THEN [raised |-> StrategyFailure, trips |-> trips]
    ELSE FitLoop(w_of, fail_at, num_items, j + 1, trips \o RowTriplets(w_of[j], j, 0))

\* the matrix a fit would install if it were interrupted at item fail_at
FitKeepsPartial(self_matrix, ds, w_of, fail_at) ==
    LET loop == FitLoop(w_of, fail_at, num_items_of(ds), 0, <<>>) IN
    [raised |-> loop.raised, matrix |-> CsrMatrix(loop.trips, num_items_of(ds))]

\* fit: the exception and the value of self.similarity_matrix afterwards
fit(self_matrix, ds, w_of, fail_at) ==
    LET loop == FitLoop(w_of, fail_at, num_items_of(ds), 0, <<>>) IN
    IF loop.raised # NoError
    THEN [raised |-> loop.raised, matrix |-> self_matrix]
    ELSE [raised |-> NoError, matrix |-> CsrMatrix(loop.trips, num_items_of(ds))]

\* ------------------------------------------------ load_similarity_matrix
\* np.loadtxt squeezes: a table of fewer than two rows comes back with one axis
LoadtxtNdim(rows) == IF Len(rows) >= 2 THEN 2 ELSE 1

\* np.array([row,col],dtype='int32') - offset, with the data beside it
ShiftTriplets(rows, offset) ==
    [x \in DOMAIN rows |-> <<rows[x][1] - offset, rows[x][2] - offset, rows[x][3]>>]

\* one more than the largest index of the triplets: the shape scipy infers
\* when none is passed
RECURSIVE InferredShape(_)
InferredShape(trips) ==
    IF trips = <<>> THEN 0
    ELSE LET t == Head(trips)
             here == 1 + (IF t[1] >= t[2] THEN t[1] ELSE t[2])
             rest == InferredShape(Tail(trips))
         IN  IF here >= rest THEN here ELSE rest

LoadInfersShape(self_matrix, rows, num_items, offset) ==
    LET trips == ShiftTriplets(rows, offset) IN
    IF LoadtxtNdim(rows) < 2 THEN [raised |-> IndexErr, matrix |-> self_matrix]
    ELSE IF ~TripletsInShape(trips, num_items)
    THEN [raised |-> ValueErr, matrix |-> self_matrix]
    ELSE [raised |-> NoError, matrix |-> CsrMatrix(trips, InferredShape(trips))]

load_similarity_matrix(self_matrix, rows, num_items, offset) ==
    LET trips == ShiftTriplets(rows, offset) IN
    IF LoadtxtNdim(rows) < 2 THEN [raised |-> IndexErr, matrix |-> self_matrix]
    ELSE IF ~TripletsInShape(trips, num_items)
    THEN [raised |-> ValueErr, matrix |-> self_matrix]
    ELSE [raised |-> NoError, matrix |-> CsrMatrix(trips, num_items)]

\* ------------------------------------------------------ python built-ins
Min(a, b) == IF a <= b THEN a ELSE b

\* s[:k] for k >= 0
Take(s, k) == SubSeq(s, 1, Min(k, Len(s)))

Reverse(s) == [x \in DOMAIN s |-> s[Len(s) + 1 - x]]

\* zip(row.indices, row.data): the stored entries, (i, f), by ascending index
RECURSIVE RowEntries(_, _)
RowEntries(row, i) ==
    IF i \notin DOMAIN row THEN <<>>
    ELSE (IF row[i] # 0 THEN <<(<<i, row[i]>>)>> ELSE <<>>) \o RowEntries(row, i + 1)

\* sorted(w, key=itemgetter(1), reverse=True): stable, equal scores keep their order
RECURSIVE InsertByScoreDesc(_, _)
InsertByScoreDesc(s, p) ==
    IF s = <<>> THEN <<p>>
    ELSE IF Head(s)[2] >= p[2] THEN <<Head(s)>> \o InsertByScoreDesc(Tail(s), p)
    ELSE <<p>> \o s

RECURSIVE SortedByScoreDesc(_)
SortedByScoreDesc(w) ==
    IF w = <<>> THEN <<>>
    ELSE InsertByScoreDesc(SortedByScoreDesc(SubSeq(w, 1, Len(w) - 1)), w[Len(w)])

\* sorted(izip(data, indices), reverse=True): (v, i) tuples, largest first
TupleGreater(p, q) == p[2] > q[2] \/ (p[2] = q[2] /\ p[1] > q[1])

RECURSIVE InsertByTupleDesc(_, _)
InsertByTupleDesc(s, p) ==
    IF s = <<>> THEN <<p>>
    ELSE IF TupleGreater(p, Head(s)) THEN <<p>> \o s
    ELSE <<Head(s)>> \o InsertByTupleDesc(Tail(s), p)

RECURSIVE SortedByTupleDesc(_)
SortedByTupleDesc(w) ==
    IF w = <<>> THEN <<>>
    ELSE InsertByTupleDesc(SortedByTupleDesc(SubSeq(w, 1, Len(w) - 1)), w[Len(w)])

\* ndarray.argsort(): every ascending order of the indices; numpy's default sort
\* is not stable, so the order of equal values is whatever the build produces
ArgSorts(w) ==
    LET n == Cardinality(DOMAIN w) IN
    {p \in [1 .. n -> DOMAIN w] :
        /\ \A x, y \in 1 .. n : x # y => p[x] # p[y]
        /\ \A x \in 1 .. (n - 1) : w[p[x]] <= w[p[x + 1]]}

PositiveOnly(pairs) == SelectSeq(pairs, LAMBDA p : p[2] > 0)

ItemsOnly(pairs) == [x \in DOMAIN pairs |-> pairs[x][1]]

\* ------------------------------------------------------ get_similar_items
\* get_similar_items without the test f > 0
GetSimilarItemsUnfiltered(self_matrix, j, max_similar_items) ==
    Take(SortedByScoreDesc(RowEntries(self_matrix.m[j], 0)), max_similar_items)

\* the branch taken when self.similarity_matrix is held
get_similar_items_held(self_matrix, j, max_similar_items) ==
    PositiveOnly(Take(SortedByScoreDesc(RowEntries(self_matrix.m[j], 0)), max_similar_items))

\* the branch that calls compute_similarities; order is w.argsort()
get_similar_items_computed(w, order, max_similar_items) ==
    LET picked == Take(Reverse(order), max_similar_items) IN
    PositiveOnly([x \in DOMAIN picked |-> <<picked[x], w[picked[x]]>>])

\* -------------------------------------------------------- score projection
RECURSIVE Dot(_, _, _)
Dot(a, b, k) ==
    IF k \notin DOMAIN a THEN 0 ELSE a[k] * b[k] + Dot(a, b, k + 1)

\* the product taken with the transposed matrix
ProjectUserTransposed(self_matrix, row) ==
    [j \in Range0(self_matrix.n) |->
        Dot([k \in Range0(self_matrix.n) |-> self_matrix.m[k][j]], row, 0)]

\* (similarity_matrix * dataset[u].T).toarray().flatten()
ProjectUser(self_matrix, row) ==
    [j \in Range0(self_matrix.n) |-> Dot(self_matrix.m[j], row, 0)]

\* dataset[user_start:user_end,:]
SliceRows(ds, user_start, user_end) ==
    [ux \in Range0(user_end - user_start) |-> ds[user_start + ux]]

\* dataset[user_start:user_end,:] * similarity_matrix.T
ProjectRange(self_matrix, ds, user_start, user_end) ==
    [ux \in Range0(user_end - user_start) |-> ProjectUser(self_matrix, ds[user_start + ux])]

\* -------------------------------------------------------- recommend_items
\* recommend_items without the set of known items
KnownItemsForgotten(ds, u) == {}

known_items(ds, u) == RowIndices(ds[u])

RECURSIVE RecommendLoop(_, _, _, _, _, _, _)
RecommendLoop(order, pos, r, known, max_n, scores, recs) ==
    IF pos > Len(order) THEN recs
    ELSE LET i == order[pos] IN
         IF i \notin known
         THEN LET grown == Append(recs, IF scores THEN <<i, r[i]>> ELSE i) IN
              IF Len(grown) >= max_n THEN grown
              ELSE RecommendLoop(order, pos + 1, r, known, max_n, scores, grown)
         ELSE RecommendLoop(order, pos + 1, r, known, max_n, scores, recs)

\* the list built from the scores r and r.argsort()
recommend_items(ds, u, r, order, max_n, scores) ==
    RecommendLoop(Reverse(order), 1, r, known_items(ds, u), max_n, scores, <<>>)

\* --------------------------------- _get_recommendations_from_predictions
\* BaseRecommender._zero_known_item_scores: the scores of the items of train set to zero
zero_known_item_scores(r, train) ==
    [ux \in DOMAIN r |-> [i \in DOMAIN r[ux] |-> IF train[ux][i] # 0 THEN 0 ELSE r[ux][i]]]

\* recs[ux]: the stored scores, largest (v, i) first, the positive ones, cut to max_n
UserRecs(ru, max_n, scores) ==
    LET ranked == PositiveOnly(SortedByTupleDesc(RowEntries(ru, 0))) IN
    Take(IF scores THEN ranked ELSE ItemsOnly(ranked), max_n)

\* the known items taken out of each list after it was cut to max_n
MaskAfterCut(r, ds, user_start, user_end, max_n, scores) ==
    [x \in 1 .. (user_end - user_start) |->
        LET cut == Take(PositiveOnly(SortedByTupleDesc(RowEntries(r[x - 1], 0))), max_n)
            kept == SelectSeq(cut, LAMBDA p : ds[user_start + x - 1][p[1]] = 0)
        IN  IF scores THEN kept ELSE ItemsOnly(kept)]

get_recommendations_from_predictions(r, ds, user_start, user_end, max_n, scores) ==
    LET safe == zero_known_item_scores(r, SliceRows(ds, user_start, user_end)) IN
    [x \in 1 .. (user_end - user_start) |-> UserRecs(safe[x - 1], max_n, scores)]

range_recommend_items(self_matrix, ds, user_start, user_end, max_n, scores) ==
    get_recommendations_from_predictions(
        ProjectRange(self_matrix, ds, user_start, user_end),
        ds, user_start, user_end, max_n, scores)

batch_recommend_items(self_matrix, ds, max_n, scores) ==
    get_recommendations_from_predictions(
        ProjectRange(self_matrix, ds, 0, num_users_of(ds)),
        ds, 0, num_users_of(ds), max_n, scores)

\* ------------------------------------------------------- the environment
\* tables of the given shape with at most MaxEntries non-zero entries, drawn from vals
SparseTables(rows, cols, vals) ==
    LET cells == Range0(rows) \X Range0(cols)
        supports == {P \in SUBSET cells : Cardinality(P) <= MaxEntries}
        fills == UNION {[P -> vals] : P \in supports}
    IN  {[r \in Range0(rows) |->
            [c \in Range0(cols) |-> IF <<r, c>> \in DOMAIN f THEN f[<<r, c>>] ELSE 0]] :
         f \in fills}

Datasets == SparseTables(NumUsers, NumItems, 1 .. MaxWeight)

NonZeroCount(table) ==
    Cardinality({c \in (DOMAIN table) \X (DOMAIN table[0]) : table[c[1]][c[2]] # 0})

SimilarityTables == SparseTables(NumItems, NumItems, {-1} \cup (1 .. MaxSim))

\* the external table of a similarity table: one row (j, k, score) per non-zero
\* entry, the indices written with the file's index base
RECURSIVE ExportRows(_, _, _)
ExportRows(table, base, j) ==
    IF j \notin DOMAIN table THEN <<>>
    ELSE LET trips == RowTriplets(table[j], j, 0) IN
         [x \in DOMAIN trips |-> <<trips[x][1] + base, trips[x][2] + base, trips[x][3]>>]
             \o ExportRows(table, base, j + 1)

\* compute_similarities(dataset, j): the vector the concrete recommender returns
compute_similarities(ds, j) == strategy[j]

Call(op, args, raised, value) == [op |-> op, args |-> args, raised |-> raised, value |-> value]

\* the matrix a completed fit installs on a new instance
Fitted(ds, table) ==
    fit(NoMatrix, ds, table, num_items_of(ds)).matrix

\* a new instance; the caller's dataset has user u holding item u
DiagonalDataset ==
    [u \in Range0(NumUsers) |-> [i \in Range0(NumItems) |-> IF i = u THEN 1 ELSE 0]]

Init ==
    /\ dataset = DiagonalDataset
    /\ strategy \in SimilarityTables
    /\ max_items \in 0 .. MaxCount
    /\ return_scores \in BOOLEAN
    /\ similarity_matrix = NoMatrix
    /\ completed = FALSE
    /\ last = Call("new", <<>>, NoError, <<>>)

\* an instance on which fit has completed, for every dataset and strategy
InitFitted ==
    /\ dataset \in Datasets
    /\ strategy \in SimilarityTables
    /\ NonZeroCount(dataset) + NonZeroCount(strategy) <= MaxEntries + 1
    /\ max_items \in 0 .. MaxCount
    /\ return_scores \in BOOLEAN
    /\ similarity_matrix = Fitted(dataset, strategy)
    /\ completed = TRUE
    /\ last = Call("fit", [fail_at |-> num_items_of(dataset)], NoError, <<>>)

\* ----------------------------------------------------------------- actions
Fit ==
    \E fail_at \in 0 .. num_items_of(dataset) :
        LET w_of == [j \in Range0(num_items_of(dataset)) |-> compute_similarities(dataset, j)]
            done == fit(similarity_matrix, dataset, w_of, fail_at)
        IN  /\ similarity_matrix' = done.matrix
            /\ completed' = (completed \/ done.raised = NoError)
            /\ last' = Call("fit", [fail_at |-> fail_at], done.raised, <<>>)
            /\ UNCHANGED caller

LoadSimilarityMatrix ==
    \E base \in 0 .. 1, offset \in 0 .. 1 :
        LET rows == ExportRows(strategy, base, 0)
            num_items == num_items_of(dataset)
            done == load_similarity_matrix(similarity_matrix, rows, num_items, offset)
        IN  /\ similarity_matrix' = done.matrix
            /\ completed' = (completed \/ done.raised = NoError)
            /\ last' = Call("load_similarity_matrix",
                            [rows |-> rows, num_items |-> num_items, offset |-> offset],
                            done.raised, <<>>)
            /\ UNCHANGED caller

GetSimilarItems ==
    \E j \in Range0(num_items_of(dataset)) :
        LET w == compute_similarities(dataset, j) IN
        /\ IF similarity_matrix.present
           THEN last' = Call("get_similar_items", [j |-> j], NoError,
                             get_similar_items_held(similarity_matrix, j, max_items))
           ELSE \/ last' = Call("get_similar_items", [j |-> j], StrategyFailure, <<>>)
                \/ \E order \in ArgSorts(w) :
                       last' = Call("get_similar_items", [j |-> j], NoError,
                                    get_similar_items_computed(w, order, max_items))
        /\ UNCHANGED <<caller, similarity_matrix, completed>>

\* a missing matrix taken for an empty one
ProductErrorSilent ==
    IF similarity_matrix.present /\ similarity_matrix.n # num_items_of(dataset) THEN ValueErr
    ELSE NoError

\* the try: no attribute gives the AttributeError; shapes that do not agree make
\* the product fail
ProductError ==
    IF ~similarity_matrix.present THEN NotFitted
    ELSE IF similarity_matrix.n # num_items_of(dataset) THEN ValueErr
    ELSE NoError

RecommendItems ==
    \E u \in Range0(num_users_of(dataset)) :
        /\ IF ProductError # NoError
           THEN last' = Call("recommend_items", [u |-> u], ProductError, <<>>)
           ELSE LET r == ProjectUser(similarity_matrix, dataset[u]) IN
                \E order \in ArgSorts(r) :
                    last' = Call("recommend_items", [u |-> u], NoError,
                                 recommend_items(dataset, u, r, order, max_items,
                                                 return_scores))
        /\ UNCHANGED <<caller, similarity_matrix, completed>>

RangeRecommendItems ==
    \E user_start \in Range0(num_users_of(dataset)), user_end \in 0 .. num_users_of(dataset) :
        LET args == [user_start |-> user_start, user_end |-> user_end] IN
        /\ user_start <= user_end
        /\ IF ProductError # NoError
           THEN last' = Call("range_recommend_items", args, ProductError, <<>>)
           ELSE last' = Call("range_recommend_items", args, NoError,
                             range_recommend_items(similarity_matrix, dataset, user_start,
                                                   user_end, max_items, return_scores))
        /\ UNCHANGED <<caller, similarity_matrix, completed>>

BatchRecommendItems ==
    /\ IF ProductError # NoError
       THEN last' = Call("batch_recommend_items", <<>>, ProductError, <<>>)
       ELSE last' = Call("batch_recommend_items", <<>>, NoError,
                         batch_recommend_items(similarity_matrix, dataset, max_items,
                                               return_scores))
    /\ UNCHANGED <<caller, similarity_matrix, completed>>

Next ==
    \/ Fit
    \/ LoadSimilarityMatrix
    \/ GetSimilarItems
    \/ RecommendItems
    \/ RangeRecommendItems
    \/ BatchRecommendItems

Spec == Init /\ [][Next]_vars

\* the calls that recommend, on a fitted instance
NextRecommend ==
    \/ RecommendItems
    \/ RangeRecommendItems
    \/ BatchRecommendItems

SpecFitted == InitFitted /\ [][NextRecommend]_vars

\* ---------------------------------------------- the four-item scenario
ZeroBased(seq) == [x \in Range0(Len(seq)) |-> seq[x + 1]]

\* user 0 holds items 0 and 2 with weight 1; scores are in tenths
ScenarioDataset ==
    <<(<<1, 0, 1, 0>>), (<<0, 1, 1, 1>>), (<<1, 1, 0, 1>>)>>

\* the contents tried for a row or column the scenario leaves open
FreeVectors ==
    {ZeroBased(v) : v \in {<<0, 0, 0, 0>>, <<10, 10, 10, 10>>, <<10, 0, 0, 10>>,
                           <<0, 10, 10, 0>>, <<10, 0, 10, 0>>}}

ScenarioA == <<0, 8, 1, 0>>

ScenarioB == <<3, 0, 0, 9>>

\* tables whose rows 0 and 2 are the two vectors, the other rows free
RowTables ==
    {[j \in Range0(4) |-> IF j = 0 THEN ZeroBased(ScenarioA)
                          ELSE IF j = 2 THEN ZeroBased(ScenarioB)
                          ELSE free[j]] :
     free \in [{1, 3} -> FreeVectors]}

\* tables whose columns 0 and 2 are the two vectors, the other columns free
ColumnTables ==
    {[j \in Range0(4) |-> [k \in Range0(4) |->
                              IF k = 0 THEN ScenarioA[j + 1]
                              ELSE IF k = 2 THEN ScenarioB[j + 1]
                              ELSE free[k][j]]] :
     free \in [{1, 3} -> FreeVectors]}

InitScenario ==
    /\ dataset = [u \in Range0(3) |-> ZeroBased(ScenarioDataset[u + 1])]
    /\ strategy \in RowTables \cup ColumnTables
    /\ max_items \in 0 .. MaxCount
    /\ return_scores \in BOOLEAN
    /\ similarity_matrix = Fitted(dataset, strategy)
    /\ completed = TRUE
    /\ last = Call("fit", [fail_at |-> num_items_of(dataset)], NoError, <<>>)

SpecScenario == InitScenario /\ [][NextRecommend]_vars

\* ================================================================ claims
RecommendCalls == {"recommend_items", "range_recommend_items", "batch_recommend_items"}

Returned(op) == last.op = op /\ last.raised = NoError

\* the item of an entry of a returned list
ItemOf(e) == IF return_scores THEN e[1] ELSE e

ItemsOf(list) == {ItemOf(list[x]) : x \in DOMAIN list}

\* the projected score of item i for user u: the sum over the items k of
\* similarity (i, k) times the weight of k in the row of u
RECURSIVE ScoreFrom(_, _, _)
ScoreFrom(u, i, k) ==
    IF k >= num_items_of(dataset) THEN 0
    ELSE similarity_matrix.m[i][k] * dataset[u][k] + ScoreFrom(u, i, k + 1)

Score(u, i) == ScoreFrom(u, i, 0)

AllItems == Range0(num_items_of(dataset))

Known(u) == {i \in AllItems : dataset[u][i] # 0}

Eligible(u) == {i \in AllItems \ Known(u) : Score(u, i) > 0}

\* the user whose list is the x-th of the lists last returned
UserAt(x) ==
    IF last.op = "range_recommend_items" THEN last.args.user_start + x - 1 ELSE x - 1

\* the lists last returned, each with its user
ReturnedLists ==
    IF last.op = "recommend_items" THEN {<<last.args.u, last.value>>}
    ELSE {<<UserAt(x), last.value[x]>> : x \in DOMAIN last.value}

ReturnedRecommendation == last.op \in RecommendCalls /\ last.raised = NoError

\* C1: no list returned by recommend_items, range_recommend_items or
\* batch_recommend_items holds an item that is non-zero in the row of its user.
C1_KnownItemsNeverReturned ==
    ReturnedRecommendation =>
        \A ul \in ReturnedLists : ItemsOf(ul[2]) \cap Known(ul[1]) = {}

\* a range call whose user holds the item with the best score, and is still
\* recommended something
C1_Witness ==
    /\ Returned("range_recommend_items")
    /\ \E ul \in ReturnedLists :
           /\ ul[2] # <<>>
           /\ \E k \in Known(ul[1]) : \A i \in AllItems \ {k} : Score(ul[1], k) > Score(ul[1], i)

\* C2: a recommend call made before any fit or load has returned ends in the
\* not-fitted error and returns nothing; after one has returned it never ends
\* in that error.
C2_NotFittedUntilInstalled ==
    last.op \in RecommendCalls =>
        /\ ~completed => (last.raised = NotFitted /\ last.value = <<>>)
        /\ completed => last.raised # NotFitted

\* a range call on an instance on which no fit or load has returned yet
C2_Witness ==
    /\ last.op = "range_recommend_items"
    /\ last.raised = NotFitted
    /\ ~completed

\* C3: every item returned by a recommend call has a projected score > 0.
C3_OnlyPositiveScores ==
    ReturnedRecommendation =>
        \A ul \in ReturnedLists :
            \A x \in DOMAIN ul[2] :
                /\ Score(ul[1], ItemOf(ul[2][x])) > 0
                /\ return_scores => ul[2][x][2] > 0

\* C4: the list of recommend_items(u) is the entry of u in range_recommend_items(a,b)
\* for every a <= u < b, and in batch_recommend_items, with the same max_items
\* and return_scores.
C4_SingleEqualsRangeAndBatch ==
    Returned("recommend_items") =>
        LET u == last.args.u IN
        /\ \A a \in 0 .. u, b \in (u + 1) .. num_users_of(dataset) :
               last.value = range_recommend_items(similarity_matrix, dataset, a, b,
                                                  max_items, return_scores)[u - a + 1]
        /\ last.value = batch_recommend_items(similarity_matrix, dataset, max_items,
                                              return_scores)[u + 1]

\* C5: recommend_items returns the empty list for max_items = 0, and a list of
\* exactly min(max_items, E) entries, E the number of eligible items of the user.
C5_LengthIsMinOfMaxAndEligible ==
    Returned("recommend_items") =>
        /\ max_items = 0 => last.value = <<>>
        /\ Len(last.value) = Min(max_items, Cardinality(Eligible(last.args.u)))

\* C10: range_recommend_items(a, b) returns b - a lists, the x-th for user
\* a + x - 1; each holds min(max_items, E_u) distinct eligible items in
\* non-increasing order of score, with their scores, and no eligible item left
\* out scores higher than one in the list.
C10_RangeListsAreTopEligible ==
    Returned("range_recommend_items") =>
        /\ Len(last.value) = last.args.user_end - last.args.user_start
        /\ \A x \in DOMAIN last.value :
               LET u == last.args.user_start + x - 1
                   list == last.value[x]
                   item(y) == ItemOf(list[y])
               IN  /\ Len(list) = Min(max_items, Cardinality(Eligible(u)))
                   /\ \A y \in DOMAIN list : item(y) \in Eligible(u)
                   /\ \A y, z \in DOMAIN list : y # z => item(y) # item(z)
                   /\ return_scores => \A y \in DOMAIN list : list[y][2] = Score(u, item(y))
                   /\ \A y \in DOMAIN list :
                          y < Len(list) => Score(u, item(y)) >= Score(u, item(y + 1))
                   /\ \A i \in Eligible(u) \ ItemsOf(list) :
                          \A y \in DOMAIN list : Score(u, i) <= Score(u, item(y))

\* a range call over both users with max_items = 1: one user holds the
\* best-scored item and is given the eligible item below it
C10_Witness ==
    /\ Returned("range_recommend_items")
    /\ max_items = 1
    /\ Len(last.value) = 2
    /\ \E x \in DOMAIN last.value :
           LET u == UserAt(x) IN
           /\ Len(last.value[x]) = 1
           /\ \E k \in Known(u) : \A i \in AllItems \ {k} : Score(u, k) > Score(u, i)

\* C7: a fit in which compute_similarities fails for an item raises to the
\* caller and leaves self.similarity_matrix as it was before the call.
C7_FailedFitKeepsMatrix ==
    [][(last'.op = "fit" /\ last'.args.fail_at < num_items_of(dataset))
           => (last'.raised = StrategyFailure /\ similarity_matrix' = similarity_matrix)]_vars

\* a fit failed at an item after the first, on an instance holding a complete
\* matrix that differs from the entries collected before the failure
C7_Witness ==
    /\ last.op = "fit"
    /\ last.raised = StrategyFailure
    /\ last.args.fail_at > 0
    /\ similarity_matrix.present
    /\ LET partial == FitKeepsPartial(similarity_matrix, dataset, strategy,
                                      last.args.fail_at).matrix
       IN  /\ partial # similarity_matrix
           /\ partial.m # ZeroMatrix(partial.n, partial.n)

\* the scores of a list of (item, score) pairs never increase along it
NonIncreasing(list) ==
    \A y \in DOMAIN list : y < Len(list) => list[y][2] >= list[y + 1][2]

StrictlyDecreasing(list) ==
    \A y \in DOMAIN list : y < Len(list) => list[y][2] > list[y + 1][2]

\* C8 as stated: get_similar_items returns at most max_similar_items pairs, all
\* of score > 0, the scores strictly decreasing.
C8_StrictlyDecreasing ==
    Returned("get_similar_items") =>
        /\ Len(last.value) <= max_items
        /\ \A y \in DOMAIN last.value : last.value[y][2] > 0
        /\ StrictlyDecreasing(last.value)

\* C8 as amended: get_similar_items returns at most max_similar_items pairs, all
\* of score > 0, the scores never increasing (equal scores stay side by side),
\* each pair an entry of the row read (the held matrix, or the computed vector).
C8_NonIncreasing ==
    Returned("get_similar_items") =>
        /\ Len(last.value) <= max_items
        /\ \A y \in DOMAIN last.value :
               /\ last.value[y][2] > 0
               /\ last.value[y][2] =
                      (IF similarity_matrix.present
                       THEN similarity_matrix.m[last.args.j][last.value[y][1]]
                       ELSE strategy[last.args.j][last.value[y][1]])
        /\ NonIncreasing(last.value)

\* the row of the held matrix has two equal positive scores and both are returned
C8_Witness ==
    /\ Returned("get_similar_items")
    /\ similarity_matrix.present
    /\ Len(last.value) = 2
    /\ last.value[1][2] = last.value[2][2]

\* the entry the external rows give for cell (r, c) after the offset is taken off
RECURSIVE SourceEntry(_, _, _, _)
SourceEntry(rows, offset, r, c) ==
    IF rows = <<>> THEN 0
    ELSE IF Head(rows)[1] - offset = r /\ Head(rows)[2] - offset = c THEN Head(rows)[3]
    ELSE SourceEntry(Tail(rows), offset, r, c)

\* the rows (1,2,0.5), (2,1,0.5), the score in halves
HalfPairRows == <<(<<1, 2, 1>>), (<<2, 1, 1>>)>>

ScenarioCall ==
    /\ Returned("recommend_items")
    /\ last.args.u = 0
    /\ max_items = 2
    /\ return_scores

ScenarioScores == ZeroBased(<<3, 8, 1, 9>>)

ScenarioAnswer == <<(<<3, 9>>), (<<1, 8>>)>>

\* C6 as stated: with rows 0 and 2 of the similarity matrix the two vectors, the
\* scores of user 0 are [0.3, 0.8, 0.1, 0.9] and recommend_items(0, 2, True)
\* returns [(3, 0.9), (1, 0.8)], whatever rows 1 and 3 hold.
C6_RowsGiveScores ==
    (ScenarioCall /\ strategy \in RowTables) =>
        /\ [i \in AllItems |-> Score(0, i)] = ScenarioScores
        /\ last.value = ScenarioAnswer

\* C6 as amended: the score of item j is the sum of entries (j,0) and (j,2); with
\* columns 0 and 2 of the similarity matrix the two vectors, the scores of user
\* 0 are [0.3, 0.8, 0.1, 0.9] and recommend_items(0, 2, True) returns
\* [(3, 0.9), (1, 0.8)], whatever columns 1 and 3 hold.
C6_ColumnsGiveScores ==
    (ScenarioCall /\ strategy \in ColumnTables) =>
        /\ \A j \in AllItems :
               Score(0, j) = similarity_matrix.m[j][0] + similarity_matrix.m[j][2]
        /\ [i \in AllItems |-> Score(0, i)] = ScenarioScores
        /\ last.value = ScenarioAnswer

\* the scenario call on a matrix whose columns 1 and 3 are not empty
C6_Witness ==
    /\ ScenarioCall
    /\ strategy \in ColumnTables
    /\ similarity_matrix.m[1][1] = 10
    /\ last.value = ScenarioAnswer

====
